---- MODULE Spec2Model ----
(***************************************************************************)
(* Model of the Opencode model configurator: the ConfigManager store       *)
(* (config_manager.py) and the command functions built on it (cli.py).     *)
(*                                                                         *)
(* A Python string is a sequence of symbols.  The symbols "/" and " " are  *)
(* the slash and the blank the code looks for (split, strip); every other  *)
(* symbol stands for a run of characters the code never looks into.        *)
(* A Python value is a record [t, s, o]: a str (t = "str", text s) or a    *)
(* dict (t = "dict", o the sequence of its items in insertion order).      *)
(* The backing file holds the token sequence json.dump writes.             *)
(***************************************************************************)
EXTENDS Integers, Sequences, FiniteSets, TLC

VARIABLES file, last, lastSync, steps, race

vars == <<file, last, lastSync, steps, race>>

----------------------------------------------------------------------------
(* Bounds *)

\* the number of calls made in one run of the model
MaxSteps == 2

----------------------------------------------------------------------------
(* Python values *)

S(x) == <<x>>

PyStr(s) == [t |-> "str", s |-> s, o |-> <<>>]

PyDict(items) == [t |-> "dict", s |-> <<>>, o |-> items]

EmptyDict == PyDict(<<>>)

Item(k, v) == [k |-> k, v |-> v]

\* k in d
Has(d, k) == \E i \in 1..Len(d.o) : d.o[i].k = k

IndexOf(d, k) == CHOOSE i \in 1..Len(d.o) : d.o[i].k = k

\* d[k]
GetItem(d, k) == d.o[IndexOf(d, k)].v

\* d.get(k, default)
Get(d, k, default) == IF Has(d, k) THEN GetItem(d, k) ELSE default

\* d[k] = v : an existing key keeps its position, a new key goes last
SetItem(d, k, v) ==
    IF Has(d, k)
    THEN [d EXCEPT !.o[IndexOf(d, k)].v = v]
    ELSE [d EXCEPT !.o = Append(@, Item(k, v))]

\* del d[k]
DelItem(d, k) == [d EXCEPT !.o = SelectSeq(@, LAMBDA e : e.k # k)]

\* list(d.keys())
Keys(d) == [i \in 1..Len(d.o) |-> d.o[i].k]

\* set(list)
ToSet(list) == {list[i] : i \in 1..Len(list)}

\* x in list
InList(x, list) == \E i \in 1..Len(list) : list[i] = x

----------------------------------------------------------------------------
(* json.dump / json.load *)

Tok(p, s) == [p |-> p, s |-> s]

RECURSIVE json_dump(_), DumpItems(_, _), DumpItemsReversed(_, _)

\* json.dump(config, f, indent=2, ensure_ascii=False): the tokens written
\* (the indentation is white space json.load skips)
json_dump(v) ==
    IF v.t = "str"
    THEN <<Tok("str", v.s)>>
    ELSE <<Tok("{", <<>>)>> \o DumpItems(v.o, 1) \o <<Tok("}", <<>>)>>

\* mutant of DumpItems: the items are written last to first
DumpItemsReversed(items, i) ==
    IF i > Len(items)
    THEN <<>>
    ELSE LET rest == DumpItemsReversed(items, i + 1) IN
         rest \o (IF rest # <<>> THEN <<Tok(",", <<>>)>> ELSE <<>>)
              \o <<Tok("str", items[i].k), Tok(":", <<>>)>>
              \o json_dump(items[i].v)

\* the items of a dict as json.dump writes them, from the i-th on
DumpItems(items, i) ==
    IF i > Len(items)
    THEN <<>>
    ELSE (IF i > 1 THEN <<Tok(",", <<>>)>> ELSE <<>>)
         \o <<Tok("str", items[i].k), Tok(":", <<>>)>>
         \o json_dump(items[i].v)
         \o DumpItems(items, i + 1)

ParseFail == [ok |-> FALSE, v |-> EmptyDict, next |-> 0]

RECURSIVE ParseValue(_, _), ParseItems(_, _, _)

\* the JSON value starting at token i, and the index after it
ParseValue(text, i) ==
    IF i > Len(text) THEN ParseFail
    ELSE IF text[i].p = "str"
         THEN [ok |-> TRUE, v |-> PyStr(text[i].s), next |-> i + 1]
    ELSE IF text[i].p = "{"
         THEN IF i + 1 <= Len(text) /\ text[i + 1].p = "}"
              THEN [ok |-> TRUE, v |-> EmptyDict, next |-> i + 2]
              ELSE ParseItems(text, i + 1, EmptyDict)
    ELSE ParseFail

\* the items of an object from token i on, added to acc in order
ParseItems(text, i, acc) ==
    IF i + 1 > Len(text) \/ text[i].p # "str" \/ text[i + 1].p # ":"
    THEN ParseFail
    ELSE LET r == ParseValue(text, i + 2) IN
         IF ~r.ok \/ r.next > Len(text) THEN ParseFail
         ELSE LET acc2 == SetItem(acc, text[i].s, r.v) IN
              IF text[r.next].p = "}"
              THEN [ok |-> TRUE, v |-> acc2, next |-> r.next + 1]
              ELSE IF text[r.next].p = ","
                   THEN ParseItems(text, r.next + 1, acc2)
                   ELSE ParseFail

\* json.load(f): the value, or JSONDecodeError
json_load(text) ==
    LET r == ParseValue(text, 1) IN
    IF r.ok /\ r.next = Len(text) + 1
    THEN [exc |-> "", v |-> r.v]
    ELSE [exc |-> "JSONDecodeError", v |-> EmptyDict]

----------------------------------------------------------------------------
(* ConfigManager.load_config / save_config *)

NoFile == [exists |-> FALSE, text |-> <<>>]

FileOf(config) == [exists |-> TRUE, text |-> json_dump(config)]

\* mutant of load_config: a missing file reads as the empty document
load_config_default(f) ==
    IF ~f.exists
    THEN [exc |-> "", v |-> EmptyDict]
    ELSE json_load(f.text)

load_config(f) ==
    IF ~f.exists
    THEN [exc |-> "FileNotFoundError", v |-> EmptyDict]
    ELSE json_load(f.text)

save_config(f, config) == FileOf(config)

\* how a call of save_config ends: without a failure, with open() failing
\* (no permission), or with a write failing (disk full) after `written'
\* tokens
NoFault == [kind |-> "none", written |-> 0]

OpenFails == [kind |-> "open", written |-> 0]

WriteFails(written) == [kind |-> "write", written |-> written]

\* the file after open(path, "w") and a json.dump that stops short of the
\* last token of text
Truncated(text, written) ==
    [exists |-> TRUE,
     text |-> SubSeq(text, 1, IF written < Len(text) THEN written
                              ELSE Len(text) - 1)]

\* save_config under a failure: the file afterwards and the exception
save_config_failing(f, config, fault) ==
    IF fault.kind = "none"
    THEN [file |-> save_config(f, config), exc |-> ""]
    ELSE IF fault.kind = "open"
         THEN [file |-> f, exc |-> "OSError"]
         ELSE [file |-> Truncated(json_dump(config), fault.written),
               exc |-> "OSError"]

----------------------------------------------------------------------------
(* What a ConfigManager method does: the file afterwards, the exception    *)
(* raised ("" for none), the counts returned (update_provider_models only) *)
(* and how many times the file was loaded and saved.                       *)

NoCounts == [added |-> 0, removed |-> 0, preserved |-> 0]

Raised(f, exc, loads) ==
    [file |-> f, exc |-> exc, ret |-> NoCounts, loads |-> loads, saves |-> 0]

\* mutant of Saved: a save after each model added or removed as well
SavedPerChange(f, config, ret) ==
    [file |-> save_config(f, config), exc |-> "", ret |-> ret,
     loads |-> 1, saves |-> 1 + ret.added + ret.removed]

Saved(f, config, ret) ==
    [file |-> save_config(f, config), exc |-> "", ret |-> ret,
     loads |-> 1, saves |-> 1]

\* ConfigManager.get_model
get_model(f) ==
    LET l == load_config(f) IN
    IF l.exc # "" THEN [exc |-> l.exc, v |-> <<>>]
    ELSE [exc |-> "", v |-> Get(l.v, S("model"), PyStr(<<>>)).s]

\* mutant of update_model: a value naming no stored provider is refused
update_model_validated(f, model) ==
    LET l == load_config(f) IN
    IF l.exc # "" THEN Raised(f, l.exc, 1)
    ELSE IF \A i \in 1..Len(Get(l.v, S("provider"), EmptyDict).o) :
                Get(l.v, S("provider"), EmptyDict).o[i].k # SubSeq(model, 1, 1)
         THEN Raised(f, "ValueError", 1)
         ELSE Saved(f, SetItem(l.v, S("model"), PyStr(model)), NoCounts)

\* ConfigManager.update_model
update_model(f, model) ==
    LET l == load_config(f) IN
    IF l.exc # "" THEN Raised(f, l.exc, 1)
    ELSE Saved(f, SetItem(l.v, S("model"), PyStr(model)), NoCounts)

\* mutant of get_providers: config["provider"] instead of config.get
get_providers_subscript(f) ==
    LET l == load_config(f) IN
    IF l.exc # "" THEN [exc |-> l.exc, v |-> EmptyDict]
    ELSE IF ~Has(l.v, S("provider"))
         THEN [exc |-> "KeyError", v |-> EmptyDict]
         ELSE [exc |-> "", v |-> GetItem(l.v, S("provider"))]

\* ConfigManager.get_providers
get_providers(f) ==
    LET l == load_config(f) IN
    IF l.exc # "" THEN [exc |-> l.exc, v |-> EmptyDict]
    ELSE [exc |-> "", v |-> Get(l.v, S("provider"), EmptyDict)]

\* mutant of add_provider: a stored provider keeps its models
add_provider_keep_models(f, provider_id, provider_config) ==
    LET l == load_config(f) IN
    IF l.exc # "" THEN Raised(f, l.exc, 1)
    ELSE LET config == IF ~Has(l.v, S("provider"))
                       THEN SetItem(l.v, S("provider"), EmptyDict)
                       ELSE l.v
             old == GetItem(config, S("provider"))
             record == IF Has(old, provider_id)
                          /\ Has(GetItem(old, provider_id), S("models"))
                       THEN SetItem(provider_config, S("models"),
                                    GetItem(GetItem(old, provider_id),
                                            S("models")))
                       ELSE provider_config
             providers == SetItem(old, provider_id, record)
         IN Saved(f, SetItem(config, S("provider"), providers), NoCounts)

\* ConfigManager.add_provider
add_provider(f, provider_id, provider_config) ==
    LET l == load_config(f) IN
    IF l.exc # "" THEN Raised(f, l.exc, 1)
    ELSE LET config == IF ~Has(l.v, S("provider"))
                       THEN SetItem(l.v, S("provider"), EmptyDict)
                       ELSE l.v
             providers == SetItem(GetItem(config, S("provider")),
                                  provider_id, provider_config)
         IN Saved(f, SetItem(config, S("provider"), providers), NoCounts)

\* mutant of add_model_to_provider: setdefault, a stored model is kept
add_model_keep_existing(f, provider_id, model_id, model_config) ==
    LET l == load_config(f) IN
    IF l.exc # "" THEN Raised(f, l.exc, 1)
    ELSE LET providers == Get(l.v, S("provider"), EmptyDict) IN
         IF ~Has(providers, provider_id) THEN Raised(f, "ValueError", 1)
         ELSE LET pc0 == GetItem(providers, provider_id)
                  pc1 == IF ~Has(pc0, S("models"))
                         THEN SetItem(pc0, S("models"), EmptyDict)
                         ELSE pc0
                  old == GetItem(pc1, S("models"))
                  models == IF Has(old, model_id) THEN old
                            ELSE SetItem(old, model_id, model_config)
                  pc2 == SetItem(pc1, S("models"), models)
                  providers2 == SetItem(providers, provider_id, pc2)
              IN Saved(f, SetItem(l.v, S("provider"), providers2), NoCounts)

\* ConfigManager.add_model_to_provider
add_model_to_provider(f, provider_id, model_id, model_config) ==
    LET l == load_config(f) IN
    IF l.exc # "" THEN Raised(f, l.exc, 1)
    ELSE LET providers == Get(l.v, S("provider"), EmptyDict) IN
         IF ~Has(providers, provider_id) THEN Raised(f, "ValueError", 1)
         ELSE LET pc0 == GetItem(providers, provider_id)
                  pc1 == IF ~Has(pc0, S("models"))
                         THEN SetItem(pc0, S("models"), EmptyDict)
                         ELSE pc0
                  models == SetItem(GetItem(pc1, S("models")),
                                    model_id, model_config)
                  pc2 == SetItem(pc1, S("models"), models)
                  providers2 == SetItem(providers, provider_id, pc2)
              IN Saved(f, SetItem(l.v, S("provider"), providers2), NoCounts)

\* ConfigManager.get_all_models: provider id -> list of model ids
get_all_models(f) ==
    LET g == get_providers(f) IN
    IF g.exc # "" THEN [exc |-> g.exc, v |-> [o |-> <<>>]]
    ELSE [exc |-> "",
          v |-> [o |-> [i \in 1..Len(g.v.o) |->
                          Item(g.v.o[i].k,
                               Keys(Get(g.v.o[i].v, S("models"), EmptyDict)))]]]

\* ConfigManager.find_providers_for_model
find_providers_for_model(f, model_id) ==
    LET g == get_all_models(f) IN
    IF g.exc # "" THEN [exc |-> g.exc, v |-> <<>>]
    ELSE [exc |-> "",
          v |-> Keys([o |-> SelectSeq(g.v.o,
                                      LAMBDA e : InList(model_id, e.v))])]

\* mutant of validate_provider_model: the model is looked up under every
\* provider
validate_any_provider(f, provider_id, model_id) ==
    LET g == get_all_models(f) IN
    IF g.exc # "" THEN [exc |-> g.exc, v |-> FALSE]
    ELSE [exc |-> "",
          v |-> \E i \in 1..Len(g.v.o) : InList(model_id, g.v.o[i].v)]

\* mutant of validate_provider_model: only the provider is looked up
validate_provider_only(f, provider_id, model_id) ==
    LET g == get_all_models(f) IN
    IF g.exc # "" THEN [exc |-> g.exc, v |-> FALSE]
    ELSE [exc |-> "", v |-> Has(g.v, provider_id)]

\* ConfigManager.validate_provider_model
validate_provider_model(f, provider_id, model_id) ==
    LET g == get_all_models(f) IN
    IF g.exc # "" THEN [exc |-> g.exc, v |-> FALSE]
    ELSE [exc |-> "", v |-> InList(model_id, Get(g.v, provider_id, <<>>))]

\* mutant of delete_provider: providers.clear() instead of del
delete_provider_clear(f, provider_id) ==
    LET l == load_config(f) IN
    IF l.exc # "" THEN Raised(f, l.exc, 1)
    ELSE LET providers == Get(l.v, S("provider"), EmptyDict) IN
         IF ~Has(providers, provider_id) THEN Raised(f, "ValueError", 1)
         ELSE Saved(f, SetItem(l.v, S("provider"), EmptyDict), NoCounts)

\* mutant of delete_provider: a selection naming the provider is dropped
delete_provider_repair(f, provider_id) ==
    LET l == load_config(f) IN
    IF l.exc # "" THEN Raised(f, l.exc, 1)
    ELSE LET providers == Get(l.v, S("provider"), EmptyDict)
             model == Get(l.v, S("model"), PyStr(<<>>)).s
         IN IF ~Has(providers, provider_id) THEN Raised(f, "ValueError", 1)
            ELSE Saved(f,
                       SetItem(IF Len(model) >= Len(provider_id)
                                  /\ SubSeq(model, 1, Len(provider_id))
                                         = provider_id
                               THEN DelItem(l.v, S("model"))
                               ELSE l.v,
                               S("provider"),
                               DelItem(providers, provider_id)),
                       NoCounts)

\* ConfigManager.delete_provider
delete_provider(f, provider_id) ==
    LET l == load_config(f) IN
    IF l.exc # "" THEN Raised(f, l.exc, 1)
    ELSE LET providers == Get(l.v, S("provider"), EmptyDict) IN
         IF ~Has(providers, provider_id) THEN Raised(f, "ValueError", 1)
         ELSE Saved(f, SetItem(l.v, S("provider"),
                               DelItem(providers, provider_id)), NoCounts)

\* the test and deletion delete_model makes for one provider of its loop
DeleteModelIn(provider_config, model_id) ==
    LET models == Get(provider_config, S("models"), EmptyDict) IN
    IF Has(models, model_id)
    THEN SetItem(provider_config, S("models"), DelItem(models, model_id))
    ELSE provider_config

RECURSIVE DeleteModelLoop(_, _, _), DeleteModelLoopFirst(_, _, _)

\* mutant of DeleteModelLoop: the loop ends at the first provider that
\* had the model
DeleteModelLoopFirst(providers, model_id, i) ==
    IF i > Len(providers.o) THEN providers
    ELSE IF Has(Get(providers.o[i].v, S("models"), EmptyDict), model_id)
         THEN [providers EXCEPT !.o[i].v = DeleteModelIn(@, model_id)]
         ELSE DeleteModelLoopFirst(providers, model_id, i + 1)

\* the loop of delete_model over providers.items(), from item i on
DeleteModelLoop(providers, model_id, i) ==
    IF i > Len(providers.o) THEN providers
    ELSE DeleteModelLoop(
             [providers EXCEPT !.o[i].v = DeleteModelIn(@, model_id)],
             model_id, i + 1)

\* mutant of delete_model: the model_found test is left out
delete_model_unchecked(f, model_id) ==
    LET l == load_config(f) IN
    IF l.exc # "" THEN Raised(f, l.exc, 1)
    ELSE LET providers == Get(l.v, S("provider"), EmptyDict) IN
         Saved(f, IF Has(l.v, S("provider"))
                  THEN SetItem(l.v, S("provider"),
                               DeleteModelLoop(providers, model_id, 1))
                  ELSE l.v,
               NoCounts)

\* ConfigManager.delete_model
delete_model(f, model_id) ==
    LET l == load_config(f) IN
    IF l.exc # "" THEN Raised(f, l.exc, 1)
    ELSE LET providers == Get(l.v, S("provider"), EmptyDict)
             model_found == \E i \in 1..Len(providers.o) :
                 Has(Get(providers.o[i].v, S("models"), EmptyDict), model_id)
         IN IF ~model_found THEN Raised(f, "ValueError", 1)
            ELSE Saved(f, SetItem(l.v, S("provider"),
                                  DeleteModelLoop(providers, model_id, 1)),
                       NoCounts)

----------------------------------------------------------------------------
(* ConfigManager.update_provider_models *)

\* mutant of to_remove: nothing is obsolete
to_remove_nothing(existing_model_ids_set, new_model_ids_set) == {}

\* mutant of to_remove: every stored id is obsolete
to_remove_every_existing(existing_model_ids_set, new_model_ids_set) ==
    existing_model_ids_set

\* to_remove = existing_model_ids_set - new_model_ids_set
to_remove(existing_model_ids_set, new_model_ids_set) ==
    existing_model_ids_set \ new_model_ids_set

\* mutant of to_add: every fetched id is (re)inserted
to_add_every_fetched(existing_model_ids_set, new_model_ids_set) ==
    new_model_ids_set

\* to_add = new_model_ids_set - existing_model_ids_set
to_add(existing_model_ids_set, new_model_ids_set) ==
    new_model_ids_set \ existing_model_ids_set

\* mutant of BasicConfig: the new model gets an empty record
BasicConfigEmpty(model_id) == EmptyDict

\* existing_models[model_id] = {"name": model_id}
BasicConfig(model_id) == PyDict(<<Item(S("name"), PyStr(model_id))>>)

RECURSIVE RemoveObsolete(_, _)

\* for model_id in to_remove: del existing_models[model_id]
RemoveObsolete(existing_models, ids) ==
    IF ids = {} THEN existing_models
    ELSE LET model_id == CHOOSE x \in ids : TRUE IN
         RemoveObsolete(DelItem(existing_models, model_id), ids \ {model_id})

RECURSIVE AddNew(_, _, _)

\* for model_id in to_add: existing_models[model_id] = {"name": model_id},
\* the set being iterated in the order given from position i on
AddNew(existing_models, order, i) ==
    IF i > Len(order) THEN existing_models
    ELSE AddNew(SetItem(existing_models, order[i], BasicConfig(order[i])),
                order, i + 1)

\* mutant of Counts: preserved counts every stored model
CountsPreservedAll(existing_model_ids_set, new_model_ids_set) ==
    [added |-> Cardinality(new_model_ids_set \ existing_model_ids_set),
     removed |-> Cardinality(existing_model_ids_set \ new_model_ids_set),
     preserved |-> Cardinality(existing_model_ids_set)]

\* the counts returned
Counts(existing_model_ids_set, new_model_ids_set) ==
    [added |-> Cardinality(to_add(existing_model_ids_set, new_model_ids_set)),
     removed |-> Cardinality(to_remove(existing_model_ids_set,
                                       new_model_ids_set)),
     preserved |-> Cardinality(existing_model_ids_set
                               \cap new_model_ids_set)]

\* the orders in which iterating a set of strings can yield its elements
IterOrders(set) ==
    {q \in [1..Cardinality(set) -> set] : ToSet(q) = set}

\* the ids update_provider_models will add, {} when it raises before
ToAddOf(f, provider_id, new_model_ids) ==
    LET l == load_config(f)
        providers == Get(l.v, S("provider"), EmptyDict)
    IN IF l.exc # "" \/ ~Has(providers, provider_id) THEN {}
       ELSE to_add(ToSet(Keys(Get(GetItem(providers, provider_id),
                                  S("models"), EmptyDict))),
                   ToSet(new_model_ids))

\* mutant of update_provider_models: a missing provider is created
update_provider_models_upsert(f, provider_id, new_model_ids, add_order) ==
    LET l == load_config(f) IN
    IF l.exc # "" THEN Raised(f, l.exc, 1)
    ELSE LET providers == Get(l.v, S("provider"), EmptyDict)
             provider_config == Get(providers, provider_id, EmptyDict)
             existing_models == Get(provider_config, S("models"), EmptyDict)
             new_model_ids_set == ToSet(new_model_ids)
             existing_model_ids_set == ToSet(Keys(existing_models))
             removed == RemoveObsolete(existing_models,
                            to_remove(existing_model_ids_set,
                                      new_model_ids_set))
             merged == AddNew(removed, add_order, 1)
             pc2 == SetItem(provider_config, S("models"), merged)
             providers2 == SetItem(providers, provider_id, pc2)
         IN Saved(f, SetItem(l.v, S("provider"), providers2),
                  Counts(existing_model_ids_set, new_model_ids_set))

\* mutant of update_provider_models: the provider record is rebuilt with
\* its models only
update_provider_models_rebuild(f, provider_id, new_model_ids, add_order) ==
    LET l == load_config(f) IN
    IF l.exc # "" THEN Raised(f, l.exc, 1)
    ELSE LET providers == Get(l.v, S("provider"), EmptyDict) IN
         IF ~Has(providers, provider_id) THEN Raised(f, "ValueError", 1)
         ELSE LET provider_config == GetItem(providers, provider_id)
                  existing_models == Get(provider_config, S("models"),
                                         EmptyDict)
                  new_model_ids_set == ToSet(new_model_ids)
                  existing_model_ids_set == ToSet(Keys(existing_models))
                  removed == RemoveObsolete(existing_models,
                                 to_remove(existing_model_ids_set,
                                           new_model_ids_set))
                  merged == AddNew(removed, add_order, 1)
                  pc2 == PyDict(<<Item(S("models"), merged)>>)
                  providers2 == SetItem(providers, provider_id, pc2)
              IN Saved(f, SetItem(l.v, S("provider"), providers2),
                       Counts(existing_model_ids_set, new_model_ids_set))

\* update_provider_models, the set to_add being iterated in add_order
update_provider_models(f, provider_id, new_model_ids, add_order) ==
    LET l == load_config(f) IN
    IF l.exc # "" THEN Raised(f, l.exc, 1)
    ELSE LET providers == Get(l.v, S("provider"), EmptyDict) IN
         IF ~Has(providers, provider_id) THEN Raised(f, "ValueError", 1)
         ELSE LET provider_config == GetItem(providers, provider_id)
                  existing_models == Get(provider_config, S("models"),
                                         EmptyDict)
                  new_model_ids_set == ToSet(new_model_ids)
                  existing_model_ids_set == ToSet(Keys(existing_models))
                  removed == RemoveObsolete(existing_models,
                                 to_remove(existing_model_ids_set,
                                           new_model_ids_set))
                  merged == AddNew(removed, add_order, 1)
                  pc2 == SetItem(provider_config, S("models"), merged)
                  providers2 == SetItem(providers, provider_id, pc2)
              IN Saved(f, SetItem(l.v, S("provider"), providers2),
                       Counts(existing_model_ids_set, new_model_ids_set))

----------------------------------------------------------------------------
(* cli.change_model *)

\* "/" in s
HasSlash(s) == \E i \in 1..Len(s) : s[i] = "/"

\* s.split("/", 1) for a string with a slash
Split1(s) ==
    LET i == CHOOSE j \in 1..Len(s) :
                 s[j] = "/" /\ \A h \in 1..(j - 1) : s[h] # "/"
    IN <<SubSeq(s, 1, i - 1), SubSeq(s, i + 1, Len(s))>>

RECURSIVE LStrip(_), RStrip(_)

LStrip(s) == IF s # <<>> /\ Head(s) = " " THEN LStrip(Tail(s)) ELSE s

RStrip(s) ==
    IF s # <<>> /\ s[Len(s)] = " " THEN RStrip(SubSeq(s, 1, Len(s) - 1))
    ELSE s

\* s.strip()
Strip(s) == RStrip(LStrip(s))

\* the provider_id and model_id change_model takes from model_value
ProviderPart(model_value) == Strip(Split1(model_value)[1])

ModelPart(model_value) == Strip(Split1(model_value)[2])

\* mutant of FinalValue: the provider prefix is left out
FinalValueModelOnly(provider_id, model_id) == model_id

\* f"{provider_id}/{model_id}"
FinalValue(provider_id, model_id) == provider_id \o <<"/">> \o model_id

\* what a command does: the file afterwards, the exit status (0 when the
\* function returns), the ConfigManager exception it caught, the loads and
\* saves it made
Exit(f, code, exc, loads, saves) ==
    [file |-> f, exit |-> code, exc |-> exc, loads |-> loads, saves |-> saves]

\* cli.change_model
change_model(f, model_value) ==
    IF ~HasSlash(model_value)
    THEN \* list_models, then sys.exit(1); a missing file also ends in exit 1
         Exit(f, 1, get_all_models(f).exc, 1, 0)
    ELSE LET provider_id == ProviderPart(model_value)
             model_id == ModelPart(model_value)
             valid == validate_provider_model(f, provider_id, model_id)
         IN IF valid.exc # "" THEN Exit(f, 1, valid.exc, 1, 0)
            ELSE IF ~valid.v
                 THEN Exit(f, 1, get_all_models(f).exc, 2, 0)
                 ELSE LET u == update_model(f, FinalValue(provider_id,
                                                          model_id))
                      IN Exit(u.file, IF u.exc # "" THEN 1 ELSE 0, u.exc,
                              1 + u.loads, u.saves)

----------------------------------------------------------------------------
(* cli.update_models and the update command *)

\* s.rstrip("/")
RECURSIVE RStripSlash(_)

RStripSlash(s) ==
    IF s # <<>> /\ s[Len(s)] = "/"
    THEN RStripSlash(SubSeq(s, 1, Len(s) - 1))
    ELSE s

\* provider_config.get("options", {}).get("baseURL"); <<>> stands for the
\* falsy values (None and "")
BaseUrlOf(provider_config) ==
    Get(Get(provider_config, S("options"), EmptyDict), S("baseURL"),
        PyStr(<<>>)).s

\* what a provider's endpoint answers: a body whose data entries carry the
\* ids listed (<<>> for an entry with no id or an empty one), a failure
\* httpx reports (no connection, non-2xx status), a body that is not the
\* JSON expected
OkResponse(ids) == [kind |-> "ok", ids |-> ids]

HttpFailure == [kind |-> "http_error", ids |-> <<>>]

Malformed == [kind |-> "malformed", ids |-> <<>>]

\* the answer of a provider that is not asked
NoResponse == [kind |-> "none", ids |-> <<>>]

\* mutant of fetch_provider_models: a failure reads as an empty catalog
fetch_provider_models_swallow(base_url, response) ==
    [url |-> RStripSlash(base_url) \o <<"/", "v1", "/", "models">>,
     exc |-> "",
     v |-> SelectSeq(response.ids, LAMBDA id : id # <<>>)]

\* ConfigManager.fetch_provider_models: the url asked, the exception raised,
\* the ids returned
fetch_provider_models(base_url, response) ==
    LET url == RStripSlash(base_url) \o <<"/", "v1", "/", "models">> IN
    IF response.kind = "http_error"
    THEN [url |-> url, exc |-> "HTTPError", v |-> <<>>]
    ELSE IF response.kind = "malformed"
         THEN [url |-> url, exc |-> "Exception", v |-> <<>>]
         ELSE [url |-> url, exc |-> "",
               v |-> SelectSeq(response.ids, LAMBDA id : id # <<>>)]

\* a run of update_models so far: the file, the table rows, the fetches
\* made, the loads and saves
RunStart(f) ==
    [file |-> f, rows |-> <<>>, fetches |-> <<>>, loads |-> 1, saves |-> 0]

\* results.append(...)
Row(run, provider_id, status, counts) ==
    [run EXCEPT !.rows = Append(@, [provider_id |-> provider_id,
                                     status |-> status, counts |-> counts])]

Fetched1(run, provider_id, url) ==
    [run EXCEPT !.fetches = Append(@, [provider_id |-> provider_id,
                                        url |-> url])]

RECURSIVE UpdateLoopAbort(_, _, _, _), UpdateLoopStale(_, _, _, _),
          UpdateLoop(_, _, _, _)

\* mutant of UpdateLoop: every provider is merged into the provider section
\* loaded at the start of the run, not into the file as it is by then
UpdateLoopStale(providers, responses, i, run) ==
    IF i > Len(providers.o) THEN {run}
    ELSE LET provider_id == providers.o[i].k
             base_url == BaseUrlOf(providers.o[i].v)
             stale == FileOf(PyDict(<<Item(S("provider"), providers)>>))
         IN IF base_url = <<>>
            THEN UpdateLoopStale(providers, responses, i + 1,
                                 Row(run, provider_id, "No baseURL",
                                     NoCounts))
            ELSE LET r == fetch_provider_models(base_url, responses[i])
                     asked == Fetched1(run, provider_id, r.url)
                 IN IF r.exc # ""
                    THEN UpdateLoopStale(providers, responses, i + 1,
                             Row(asked, provider_id,
                                 IF r.exc = "HTTPError" THEN "HTTP Error"
                                 ELSE "Error",
                                 NoCounts))
                    ELSE UNION {
                           LET u == update_provider_models(stale,
                                        provider_id, r.v, add_order)
                           IN UpdateLoopStale(providers, responses, i + 1,
                                  Row([asked EXCEPT
                                         !.file = u.file,
                                         !.loads = @ + u.loads,
                                         !.saves = @ + u.saves],
                                      provider_id, "Success", u.ret)) :
                           add_order \in IterOrders(ToAddOf(stale,
                                             provider_id, r.v))}

\* mutant of UpdateLoop: a failure ends the run
UpdateLoopAbort(providers, responses, i, run) ==
    IF i > Len(providers.o) THEN {run}
    ELSE LET provider_id == providers.o[i].k
             base_url == BaseUrlOf(providers.o[i].v)
         IN IF base_url = <<>>
            THEN UpdateLoopAbort(providers, responses, i + 1,
                                 Row(run, provider_id, "No baseURL",
                                     NoCounts))
            ELSE LET r == fetch_provider_models(base_url, responses[i])
                     asked == Fetched1(run, provider_id, r.url)
                 IN IF r.exc # ""
                    THEN {Row(asked, provider_id, "Error", NoCounts)}
                    ELSE UNION {
                           LET u == update_provider_models(run.file,
                                        provider_id, r.v, add_order)
                           IN UpdateLoopAbort(providers, responses, i + 1,
                                  Row([asked EXCEPT
                                         !.file = u.file,
                                         !.loads = @ + u.loads,
                                         !.saves = @ + u.saves],
                                      provider_id, "Success", u.ret)) :
                           add_order \in IterOrders(ToAddOf(run.file,
                                             provider_id, r.v))}

\* the loop `for provider_id, provider_config in providers.items()' from
\* its i-th item on: the set of runs it can end in, one for each order in
\* which update_provider_models iterates its sets
UpdateLoop(providers, responses, i, run) ==
    IF i > Len(providers.o) THEN {run}
    ELSE LET provider_id == providers.o[i].k
             base_url == BaseUrlOf(providers.o[i].v)
         IN IF base_url = <<>>
            THEN UpdateLoop(providers, responses, i + 1,
                            Row(run, provider_id, "No baseURL", NoCounts))
            ELSE LET r == fetch_provider_models(base_url, responses[i])
                     asked == Fetched1(run, provider_id, r.url)
                 IN IF r.exc # ""
                    THEN UpdateLoop(providers, responses, i + 1,
                             Row(asked, provider_id,
                                 IF r.exc = "HTTPError" THEN "HTTP Error"
                                 ELSE "Error",
                                 NoCounts))
                    ELSE UNION {
                           LET u == update_provider_models(run.file,
                                        provider_id, r.v, add_order)
                           IN UpdateLoop(providers, responses, i + 1,
                                  Row([asked EXCEPT
                                         !.file = u.file,
                                         !.loads = @ + u.loads,
                                         !.saves = @ + u.saves],
                                      provider_id,
                                      IF u.exc = "" THEN "Success"
                                      ELSE "Error",
                                      u.ret)) :
                           add_order \in IterOrders(ToAddOf(run.file,
                                             provider_id, r.v))}

\* what the update command does: the run with the exit status and the
\* ConfigManager exception that ended it
UpdateExit(run, code, exc) ==
    [file |-> run.file, exit |-> code, exc |-> exc, loads |-> run.loads,
     saves |-> run.saves, rows |-> run.rows, fetches |-> run.fetches]

\* cli.update_models: the results it can end in
update_models(f, responses) ==
    LET p == get_providers(f) IN
    IF p.exc # "" THEN {UpdateExit(RunStart(f), 1, p.exc)}
    ELSE IF p.v.o = <<>> THEN {UpdateExit(RunStart(f), 0, "")}
         ELSE {UpdateExit(run, 0, "") :
                   run \in UpdateLoop(p.v, responses, 1, RunStart(f))}

\* no argument after `update'
NoTarget == <<>>

\* main() run as `update [target]': the update subparser declares no
\* argument, so one given makes HelpOnErrorParser.error exit with status 2
\* before the file is opened
update_command(f, target, responses) ==
    IF target # NoTarget
    THEN {UpdateExit([RunStart(f) EXCEPT !.loads = 0], 2, "")}
    ELSE update_models(f, responses)

----------------------------------------------------------------------------
(* The add, delete and show commands *)

\* str.lower() on one character; the symbols that stand for longer runs
\* hold no upper-case letter
LowerChar(ch) ==
    CASE ch = "Y" -> "y"
      [] ch = "B" -> "b"
      [] OTHER -> ch

\* s.lower()
Lower(s) == [i \in 1..Len(s) |-> LowerChar(s[i])]

\* main: the provider id made from --name: lower case, " " replaced by "-",
\* then only alphanumerics, "-" and "_" kept ("!" and "/" stand for the
\* characters dropped)
ProviderIdOf(name) ==
    SelectSeq([i \in 1..Len(name) |->
                  IF LowerChar(name[i]) = " " THEN "-"
                  ELSE LowerChar(name[i])],
              LAMBDA ch : ch \notin {"!", "/"})

\* what one of these commands does: the file afterwards, the exit status,
\* the ConfigManager exception caught, the loads and saves, the prompts
\* shown and the provider ids update_models was called for
CliExit(f, code, exc, loads, saves, prompts) ==
    [file |-> f, exit |-> code, exc |-> exc, loads |-> loads,
     saves |-> saves, prompts |-> prompts, updates |-> <<>>]

\* the exit status after a ConfigManager call inside try/except
StatusAfter(exc) == IF exc # "" THEN 1 ELSE 0

\* the record cli.add_provider builds
ProviderRecord(npm_package, name, base_url, models) ==
    PyDict(<<Item(S("npm"), PyStr(npm_package)),
             Item(S("name"), PyStr(name)),
             Item(S("options"),
                  PyDict(<<Item(S("baseURL"), PyStr(base_url))>>)),
             Item(S("models"), models)>>)

\* ConfigManager.add_provider between its load_config and its save_config:
\* the document in memory with the provider assigned
add_provider_in(config, provider_id, provider_config) ==
    LET config2 == IF ~Has(config, S("provider"))
                   THEN SetItem(config, S("provider"), EmptyDict)
                   ELSE config
    IN SetItem(config2, S("provider"),
               SetItem(GetItem(config2, S("provider")), provider_id,
                       provider_config))

\* mutant of DocumentToSave: the file is read again right before the save
DocumentToSaveFresh(loaded, f, provider_id, provider_config) ==
    add_provider_in(load_config(f).v, provider_id, provider_config)

\* the document an add_provider invocation saves when the file holds f:
\* the one it loaded, with its provider assigned; f is not read again
DocumentToSave(loaded, f, provider_id, provider_config) ==
    add_provider_in(loaded, provider_id, provider_config)

\* cli.add_provider
add_provider_command(f, provider_id, npm_package, name, base_url) ==
    LET provider_config == ProviderRecord(npm_package, name, base_url,
                                          EmptyDict)
        e == add_provider(f, provider_id, provider_config)
    IN CliExit(e.file, StatusAfter(e.exc), e.exc, e.loads, e.saves, 0)

\* cli.add_model
add_model(f, provider_id, model_id, model_name) ==
    LET model_config == PyDict(<<Item(S("name"), PyStr(model_name))>>)
        e == add_model_to_provider(f, provider_id, model_id, model_config)
    IN CliExit(e.file, StatusAfter(e.exc), e.exc, e.loads, e.saves, 0)

\* mutant of Confirmed: every answer confirms
ConfirmedAlways(auto_confirm, answer) == TRUE

\* the deletion goes ahead: auto_confirm, or input().strip().lower() is "y"
Confirmed(auto_confirm, answer) ==
    auto_confirm \/ Lower(Strip(answer)) = <<"y">>

\* the number of input() calls
Prompts(auto_confirm) == IF auto_confirm THEN 0 ELSE 1

\* cli.delete_provider
delete_provider_command(f, provider_id, auto_confirm, answer) ==
    IF ~Confirmed(auto_confirm, answer)
    THEN CliExit(f, 0, "", 0, 0, Prompts(auto_confirm))
    ELSE LET e == delete_provider(f, provider_id) IN
         CliExit(e.file, StatusAfter(e.exc), e.exc, e.loads, e.saves,
                 Prompts(auto_confirm))

\* cli.delete_model
delete_model_command(f, model_id, auto_confirm, answer) ==
    IF ~Confirmed(auto_confirm, answer)
    THEN CliExit(f, 0, "", 0, 0, Prompts(auto_confirm))
    ELSE LET e == delete_model(f, model_id) IN
         CliExit(e.file, StatusAfter(e.exc), e.exc, e.loads, e.saves,
                 Prompts(auto_confirm))

\* cli.show_config
show_config(f) ==
    LET g == get_model(f) IN CliExit(f, StatusAfter(g.exc), g.exc, 1, 0, 0)

----------------------------------------------------------------------------
(* Documents and inputs *)

a == S("a")

b == S("b")

c == S("c")

x == S("x")

y == S("y")

z == S("z")

\* a model id with a slash in it, as in "org/model"
xy == <<"x", "/", "y">>

\* the text "<p>/<m>"
Pair(p, m) == p \o <<"/">> \o m

ModelRecord(name) == PyDict(<<Item(S("name"), PyStr(name))>>)

\* a model record with a field besides the display name
RichRecord(name) ==
    PyDict(<<Item(S("name"), PyStr(name)),
             Item(S("limit"),
                  PyDict(<<Item(S("context"), PyStr(S("8k")))>>))>>)

Npm == S("@ai-sdk/openai-compatible")

\* {}
DocEmpty == EmptyDict

\* two providers sharing the model id y, a valid selection
DocTwo ==
    PyDict(<<
      Item(S("model"), PyStr(Pair(a, x))),
      Item(S("provider"), PyDict(<<
        Item(a, ProviderRecord(Npm, S("Provider-A"), S("http://a"),
                 PyDict(<<Item(x, ModelRecord(S("Model-X"))),
                          Item(y, RichRecord(S("Model-Y")))>>))),
        Item(b, ProviderRecord(Npm, S("Provider-B"), S("http://b"),
                 PyDict(<<Item(y, ModelRecord(S("Y-Alternate"))),
                          Item(z, ModelRecord(z))>>)))>>))>>)

\* a provider without models and options, another top-level field, no model
DocBare ==
    PyDict(<<
      Item(S("theme"), PyStr(S("dark"))),
      Item(S("provider"), PyDict(<<
        Item(a, PyDict(<<Item(S("name"), PyStr(S("Provider-A")))>>))>>))>>)

\* a model id with a slash, a dangling selection, provider before model
DocSlash ==
    PyDict(<<
      Item(S("provider"), PyDict(<<
        Item(b, ProviderRecord(Npm, S("Provider-B"), S("http://b"),
                 PyDict(<<Item(xy, ModelRecord(S("Org-Model"))),
                          Item(x, ModelRecord(x))>>)))>>)),
      Item(S("model"), PyStr(Pair(c, x)))>>)

InitDocs == {DocEmpty, DocTwo, DocBare, DocSlash}

\* three providers: a base URL ending in a slash, an empty base URL between
\* two that have one
DocMixed ==
    PyDict(<<
      Item(S("provider"), PyDict(<<
        Item(a, ProviderRecord(Npm, S("Provider-A"), <<"http://a", "/">>,
                 PyDict(<<Item(x, RichRecord(S("Model-X")))>>))),
        Item(c, ProviderRecord(Npm, S("Provider-C"), <<>>,
                 PyDict(<<Item(x, ModelRecord(x))>>))),
        Item(b, ProviderRecord(Npm, S("Provider-B"), S("http://b"),
                 PyDict(<<Item(y, ModelRecord(y)),
                          Item(z, ModelRecord(z))>>)))>>))>>)

\* documents the update command starts from
UpdateDocs == InitDocs \cup {DocMixed}

ProviderIds == {a, b}

ModelIds == {x, y, z}

\* model id lists a provider's endpoint can return: empty, one id, two ids
\* in both orders, one id twice
FetchedLists == {<<>>, <<y>>, <<y, z>>, <<z, y>>, <<z, z>>}

\* values given to update_model
ModelValues == {Pair(c, z), S("nonsense")}

\* values given to change_model
ChangeValues ==
    {Pair(a, x), Pair(b, y),
     <<" ", "a", " ", "/", " ", "x", " ">>,
     Pair(b, xy), Pair(a, z), Pair(c, x),
     S("ax")}

\* what an endpoint can answer: two ids, an id twice with an entry that has
\* none, a failure reported by httpx, a body that does not parse
Responses ==
    {OkResponse(<<y, z>>), OkResponse(<<z, <<>>, z>>), HttpFailure,
     Malformed}

\* targets given to the update command: none, a provider id, a provider id
\* of the larger document only, "all" in two letter cases
Targets == {NoTarget, a, c, S("all"), S("ALL")}

\* --name values given to `add provider': one that makes the id b, one
\* with a space and a character that is dropped
ProviderNames == {<<"B">>, <<"c", " ", "x", "!">>}

\* what is typed at the prompt: y, y in upper case between spaces, n,
\* nothing, yes
Answers == {<<"y">>, <<" ", "Y", " ">>, <<"n">>, <<>>, <<"y", "e", "s">>}

Deletion(id, auto_confirm, answer) ==
    [id |-> id, auto_confirm |-> auto_confirm, answer |-> answer]

\* `delete provider' invocations
ProviderDeletions ==
    {Deletion(a, TRUE, <<>>), Deletion(a, FALSE, <<"n">>),
     Deletion(a, FALSE, <<" ", "Y", " ">>), Deletion(c, FALSE, <<"y">>),
     Deletion(b, FALSE, <<"y", "e", "s">>)}

\* `delete model' invocations
ModelDeletions ==
    {Deletion(x, TRUE, <<>>), Deletion(x, FALSE, <<>>),
     Deletion(y, FALSE, <<" ", "Y", " ">>), Deletion(z, FALSE, <<"y">>),
     Deletion(y, FALSE, <<"n">>)}

\* values given to the change command next to the other commands
CommandChangeValues == {Pair(a, x), Pair(c, x), S("ax")}

\* how the save of a call can end: without failure, at open(), with
\* nothing written, after the first token, after the fifth
Faults == {NoFault, OpenFails, WriteFails(0), WriteFails(1), WriteFails(5)}

\* records given to add_model_to_provider
NewModelRecords == {ModelRecord(S("Custom"))}

\* records given to add_provider
NewProviderRecords == {ProviderRecord(Npm, S("New"), S("http://new"), EmptyDict)}

----------------------------------------------------------------------------
(* The state machine: the backing file, the last call with the file it     *)
(* found and what it did, the update_provider_models call right before it  *)
(* if there was one, and the number of calls made.                         *)

NoCall ==
    [op |-> "", provider_id |-> <<>>, model_id |-> <<>>,
     model_value |-> <<>>, new_model_ids |-> <<>>, config |-> EmptyDict,
     pre |-> NoFile, exc |-> "", exit |-> 0, ret |-> NoCounts,
     loads |-> 0, saves |-> 0, target |-> <<>>, responses |-> <<>>,
     rows |-> <<>>, fetches |-> <<>>, name |-> <<>>,
     auto_confirm |-> FALSE, answer |-> <<>>, prompts |-> 0,
     updates |-> <<>>, fault |-> NoFault, whole |-> NoFile]

\* the record of a ConfigManager method call with effect e
MethodCall(call, e) ==
    [call EXCEPT !.pre = file, !.exc = e.exc, !.ret = e.ret,
                 !.loads = e.loads, !.saves = e.saves]

\* the record of a command with effect e
CommandCall(call, e) ==
    [call EXCEPT !.pre = file, !.exc = e.exc, !.exit = e.exit,
                 !.loads = e.loads, !.saves = e.saves]

\* the record of an update command with effect e
UpdateCall(call, e) ==
    [call EXCEPT !.pre = file, !.exc = e.exc, !.exit = e.exit,
                 !.loads = e.loads, !.saves = e.saves, !.rows = e.rows,
                 !.fetches = e.fetches]

\* the record of an add, delete or show command with effect e
CliCall(call, e) ==
    [call EXCEPT !.pre = file, !.exc = e.exc, !.exit = e.exit,
                 !.loads = e.loads, !.saves = e.saves,
                 !.prompts = e.prompts, !.updates = e.updates]

NoSync == [provider_id |-> <<>>, new_model_ids |-> <<>>, done |-> FALSE]

\* the successful update_provider_models call that `last' records, if any
SyncOf(call) ==
    IF call.op = "update_provider_models" /\ call.exc = ""
    THEN [provider_id |-> call.provider_id,
          new_model_ids |-> call.new_model_ids, done |-> TRUE]
    ELSE NoSync

\* no invocations running side by side
NoRace == [start |-> NoFile, procs |-> <<>>, events |-> <<>>]

Step(f, call) ==
    /\ steps < MaxSteps
    /\ file' = f
    /\ last' = call
    /\ lastSync' = SyncOf(last)
    /\ steps' = steps + 1
    /\ race' = race

Init ==
    /\ file \in {NoFile} \cup {FileOf(d) : d \in InitDocs}
    /\ last = NoCall
    /\ lastSync = NoSync
    /\ steps = 0
    /\ race = NoRace

UpdateModel ==
    \E model \in ModelValues :
        LET e == update_model(file, model) IN
        Step(e.file, MethodCall([NoCall EXCEPT !.op = "update_model",
                                               !.model_value = model], e))

AddProvider ==
    \E provider_id \in ProviderIds, provider_config \in NewProviderRecords :
        LET e == add_provider(file, provider_id, provider_config) IN
        Step(e.file, MethodCall([NoCall EXCEPT !.op = "add_provider",
                                               !.provider_id = provider_id,
                                               !.config = provider_config], e))

AddModelToProvider ==
    \E provider_id \in ProviderIds, model_id \in {x, z},
       model_config \in NewModelRecords :
        LET e == add_model_to_provider(file, provider_id, model_id,
                                       model_config)
        IN Step(e.file,
                MethodCall([NoCall EXCEPT !.op = "add_model_to_provider",
                                          !.provider_id = provider_id,
                                          !.model_id = model_id,
                                          !.config = model_config], e))

DeleteProvider ==
    \E provider_id \in ProviderIds :
        LET e == delete_provider(file, provider_id) IN
        Step(e.file, MethodCall([NoCall EXCEPT !.op = "delete_provider",
                                               !.provider_id = provider_id],
                                e))

DeleteModel ==
    \E model_id \in ModelIds :
        LET e == delete_model(file, model_id) IN
        Step(e.file, MethodCall([NoCall EXCEPT !.op = "delete_model",
                                               !.model_id = model_id], e))

UpdateProviderModels ==
    \E provider_id \in ProviderIds, new_model_ids \in FetchedLists :
        \E add_order \in IterOrders(ToAddOf(file, provider_id, new_model_ids)) :
            LET e == update_provider_models(file, provider_id, new_model_ids,
                                            add_order)
            IN Step(e.file,
                    MethodCall([NoCall EXCEPT
                                    !.op = "update_provider_models",
                                    !.provider_id = provider_id,
                                    !.new_model_ids = new_model_ids], e))

ChangeModel ==
    \E model_value \in ChangeValues :
        LET e == change_model(file, model_value) IN
        Step(e.file, CommandCall([NoCall EXCEPT !.op = "change_model",
                                                !.model_value = model_value],
                                 e))

Next ==
    \/ UpdateModel
    \/ AddProvider
    \/ AddModelToProvider
    \/ DeleteProvider
    \/ DeleteModel
    \/ UpdateProviderModels
    \/ ChangeModel

Spec == Init /\ [][Next]_vars

\* one answer for each provider of the document in f that has a base URL
ResponseSeqs(f) ==
    LET providers == get_providers(f).v IN
    {q \in [1..Len(providers.o) -> Responses \cup {NoResponse}] :
        \A i \in 1..Len(providers.o) :
            (q[i] = NoResponse) <=> (BaseUrlOf(providers.o[i].v) = <<>>)}

InitUpdate ==
    /\ file \in {NoFile} \cup {FileOf(d) : d \in UpdateDocs}
    /\ last = NoCall
    /\ lastSync = NoSync
    /\ steps = 0
    /\ race = NoRace

UpdateCommand ==
    \E target \in Targets :
        \E responses \in IF target = NoTarget THEN ResponseSeqs(file)
                         ELSE {<<>>} :
            \E e \in update_command(file, target, responses) :
                Step(e.file, UpdateCall([NoCall EXCEPT
                                            !.op = "update",
                                            !.target = target,
                                            !.responses = responses], e))

\* the update command among calls that add and delete what it reads
NextUpdate ==
    \/ UpdateCommand
    \/ DeleteProvider
    \/ AddModelToProvider

SpecUpdate == InitUpdate /\ [][NextUpdate]_vars

\* a method with effect e on the file, its save_config call ending as
\* fault says: the document it saves is the one e.file holds
UnderFault(e, fault) ==
    IF e.saves = 0 THEN e
    ELSE LET w == save_config_failing(file, load_config(e.file).v, fault) IN
         [e EXCEPT !.file = w.file, !.exc = w.exc,
                   !.ret = IF w.exc = "" THEN e.ret ELSE NoCounts]

\* the record of a method call whose save ends as fault says
FaultyCall(call, e, fault) ==
    [MethodCall(call, UnderFault(e, fault)) EXCEPT !.fault = fault,
                                                   !.whole = e.file]

UpdateModelFaulty ==
    \E model \in ModelValues, fault \in Faults :
        LET e == update_model(file, model) IN
        Step(UnderFault(e, fault).file,
             FaultyCall([NoCall EXCEPT !.op = "update_model",
                                       !.model_value = model], e, fault))

AddProviderFaulty ==
    \E provider_config \in NewProviderRecords, fault \in Faults :
        LET e == add_provider(file, c, provider_config) IN
        Step(UnderFault(e, fault).file,
             FaultyCall([NoCall EXCEPT !.op = "add_provider",
                                       !.provider_id = c,
                                       !.config = provider_config],
                        e, fault))

DeleteProviderFaulty ==
    \E provider_id \in ProviderIds, fault \in Faults :
        LET e == delete_provider(file, provider_id) IN
        Step(UnderFault(e, fault).file,
             FaultyCall([NoCall EXCEPT !.op = "delete_provider",
                                       !.provider_id = provider_id],
                        e, fault))

\* mutating methods whose save can fail
NextFaulty ==
    \/ UpdateModelFaulty
    \/ AddProviderFaulty
    \/ DeleteProviderFaulty

SpecFaulty == Init /\ [][NextFaulty]_vars

\* an add_provider invocation that has not started
Invocation(provider_id, provider_config) ==
    [pc |-> "start", provider_id |-> provider_id,
     provider_config |-> provider_config, loaded |-> EmptyDict, exc |-> ""]

\* the two processes
Procs == {1, 2}

\* the provider record each process adds
RaceRecord(i) ==
    IF i = 1 THEN ProviderRecord(Npm, S("New"), S("http://new"), EmptyDict)
    ELSE ProviderRecord(Npm, S("Other"), S("http://other"), EmptyDict)

\* provider ids the processes add: stored ones and one that is new
RaceProviderIds == {a, b, c}

\* two add_provider invocations against the same file, each with a
\* provider id of its own choice
InitRace ==
    /\ file \in {NoFile} \cup {FileOf(d) : d \in UpdateDocs}
    /\ last = NoCall
    /\ lastSync = NoSync
    /\ steps = 0
    /\ race \in {[start |-> file,
                  procs |-> <<Invocation(p1, RaceRecord(1)),
                              Invocation(p2, RaceRecord(2))>>,
                  events |-> <<>>] : p1 \in RaceProviderIds,
                                     p2 \in RaceProviderIds}

Event(i, step) == [proc |-> i, step |-> step]

\* config = self.load_config() in process i
RaceLoad ==
    \E i \in Procs :
        /\ race.procs[i].pc = "start"
        /\ LET l == load_config(file) IN
           race' = [race EXCEPT
                      !.procs[i] = IF l.exc # ""
                                   THEN [@ EXCEPT !.pc = "done",
                                                  !.exc = l.exc]
                                   ELSE [@ EXCEPT !.pc = "loaded",
                                                  !.loaded = l.v],
                      !.events = Append(@, Event(i, "load"))]
        /\ UNCHANGED <<file, last, lastSync, steps>>

\* the assignment and self.save_config(config) in process i
RaceSave ==
    \E i \in Procs :
        /\ race.procs[i].pc = "loaded"
        /\ file' = save_config(file,
                       DocumentToSave(race.procs[i].loaded, file,
                                      race.procs[i].provider_id,
                                      race.procs[i].provider_config))
        /\ race' = [race EXCEPT !.procs[i].pc = "done",
                                !.events = Append(@, Event(i, "save"))]
        /\ UNCHANGED <<last, lastSync, steps>>

NextRace == RaceLoad \/ RaceSave

SpecRace == InitRace /\ [][NextRace]_vars

AddProviderCommand ==
    \E name \in ProviderNames :
        LET provider_id == ProviderIdOf(name)
            e == add_provider_command(file, provider_id, Npm, name,
                                      S("http://new"))
        IN Step(e.file, CliCall([NoCall EXCEPT !.op = "add provider",
                                               !.provider_id = provider_id,
                                               !.name = name], e))

AddModelCommand ==
    \E provider_id \in {a, c} :
        LET e == add_model(file, provider_id, z, S("Custom")) IN
        Step(e.file, CliCall([NoCall EXCEPT !.op = "add model",
                                            !.provider_id = provider_id,
                                            !.model_id = z], e))

DeleteProviderCommand ==
    \E d \in ProviderDeletions :
        LET e == delete_provider_command(file, d.id, d.auto_confirm,
                                         d.answer)
        IN Step(e.file, CliCall([NoCall EXCEPT
                                    !.op = "delete provider",
                                    !.provider_id = d.id,
                                    !.auto_confirm = d.auto_confirm,
                                    !.answer = d.answer], e))

DeleteModelCommand ==
    \E d \in ModelDeletions :
        LET e == delete_model_command(file, d.id, d.auto_confirm, d.answer)
        IN Step(e.file, CliCall([NoCall EXCEPT
                                    !.op = "delete model",
                                    !.model_id = d.id,
                                    !.auto_confirm = d.auto_confirm,
                                    !.answer = d.answer], e))

ShowCommand ==
    LET e == show_config(file) IN
    Step(e.file, CliCall([NoCall EXCEPT !.op = "show"], e))

ChangeCommand ==
    \E model_value \in CommandChangeValues :
        LET e == change_model(file, model_value) IN
        Step(e.file, CommandCall([NoCall EXCEPT !.op = "change_model",
                                                !.model_value = model_value],
                                 e))

\* the answers where every provider asked gets the same one
UniformResponses(f) ==
    {q \in ResponseSeqs(f) :
        \E r \in {OkResponse(<<y, z>>), HttpFailure} :
            \A i \in 1..Len(q) : q[i] \in {r, NoResponse}}

\* the update command with no target, or with a provider id
UpdateAllCommand ==
    \E target \in {NoTarget, a} :
        \E responses \in IF target = NoTarget THEN UniformResponses(file)
                         ELSE {<<>>} :
            \E e \in update_command(file, target, responses) :
                Step(e.file, UpdateCall([NoCall EXCEPT
                                            !.op = "update",
                                            !.target = target,
                                            !.responses = responses], e))

\* the commands of main
NextCli ==
    \/ AddProviderCommand
    \/ AddModelCommand
    \/ DeleteProviderCommand
    \/ DeleteModelCommand
    \/ ShowCommand
    \/ ChangeCommand
    \/ UpdateAllCommand

SpecCli == InitUpdate /\ [][NextCli]_vars

----------------------------------------------------------------------------
(* Reading a file's document, for the properties below *)

ConfigOf(f) == load_config(f).v

ProvidersOf(f) == Get(ConfigOf(f), S("provider"), EmptyDict)

\* the models mapping stored under provider p, empty when there is none
ModelsOf(f, p) ==
    IF Has(ProvidersOf(f), p)
    THEN Get(GetItem(ProvidersOf(f), p), S("models"), EmptyDict)
    ELSE EmptyDict

ModelIdsOf(f, p) == ToSet(Keys(ModelsOf(f, p)))

\* the selection field, "" when there is none
SelectionOf(f) == get_model(f).v

\* provider p is stored and has a model m
PairStored(f, p, m) == Has(ProvidersOf(f), p) /\ Has(ModelsOf(f, p), m)

\* the last call was update_provider_models and it returned
Synced == last.op = "update_provider_models" /\ last.exc = ""

\* what that call was given and found
Fetched == ToSet(last.new_model_ids)

Existing == ModelIdsOf(last.pre, last.provider_id)

----------------------------------------------------------------------------
(* Properties *)

\* C1: after update_provider_models(p, F) succeeds, the model ids stored
\* under p are exactly set(F): every id of existing - fetched is gone and
\* every id of fetched - existing is there.
C1_StoredIdsAreFetched ==
    Synced =>
        /\ ModelIdsOf(file, last.provider_id) = Fetched
        /\ \A m \in Existing \ Fetched :
               ~Has(ModelsOf(file, last.provider_id), m)
        /\ \A m \in Fetched \ Existing :
               Has(ModelsOf(file, last.provider_id), m)

\* update_provider_models returned having both deleted and inserted ids
C1_Witness ==
    /\ Synced
    /\ Existing \ Fetched # {}
    /\ Fetched \ Existing # {}
    /\ ModelIdsOf(file, last.provider_id) = Fetched

\* C2: a model id stored under p and present in the fetched list keeps its
\* stored record exactly; it is not reset to the default {"name": id}.
C2_PreservedRecordsUntouched ==
    Synced =>
        \A m \in Existing \cap Fetched :
            /\ Has(ModelsOf(file, last.provider_id), m)
            /\ GetItem(ModelsOf(file, last.provider_id), m)
                   = GetItem(ModelsOf(last.pre, last.provider_id), m)

\* a preserved model whose record has a custom name and a further field
C2_Witness ==
    /\ Synced
    /\ \E m \in Existing \cap Fetched :
           /\ GetItem(ModelsOf(last.pre, last.provider_id), m)
                  = RichRecord(S("Model-Y"))
           /\ GetItem(ModelsOf(file, last.provider_id), m)
                  = RichRecord(S("Model-Y"))

\* C3: the counts returned are the sizes of three pairwise disjoint sets,
\* added = fetched - existing, removed = existing - fetched, preserved =
\* existing /\ fetched, which add up to the size of existing \/ fetched
\* (a repeated id in the list counts once); they are also the numbers of
\* ids the file gained, lost and kept.
C3_CountsPartition ==
    Synced =>
        LET stored == ModelIdsOf(file, last.provider_id) IN
        /\ last.ret.added = Cardinality(Fetched \ Existing)
        /\ last.ret.removed = Cardinality(Existing \ Fetched)
        /\ last.ret.preserved = Cardinality(Existing \cap Fetched)
        /\ last.ret.added + last.ret.removed + last.ret.preserved
               = Cardinality(Existing \cup Fetched)
        /\ last.ret.added = Cardinality(stored \ Existing)
        /\ last.ret.removed = Cardinality(Existing \ stored)
        /\ last.ret.preserved = Cardinality(Existing \cap stored)

\* a call that added one id, removed one and preserved one
C3_Witness ==
    /\ Synced
    /\ last.ret = [added |-> 1, removed |-> 1, preserved |-> 1]

\* a call given the same id twice, counted once
C3_WitnessDuplicate ==
    /\ Synced
    /\ last.new_model_ids = <<z, z>>
    /\ last.ret.added + last.ret.preserved = 1

\* C4: update_provider_models(p, F) run right after a successful run with
\* the same provider and the same fetched id set leaves the file as the
\* first run left it and returns added = 0, removed = 0, preserved = |set(F)|.
C4_SecondRunIdempotent ==
    (/\ Synced
     /\ lastSync.done
     /\ lastSync.provider_id = last.provider_id
     /\ ToSet(lastSync.new_model_ids) = Fetched)
    => /\ file = last.pre
       /\ last.ret = [added |-> 0, removed |-> 0,
                      preserved |-> Cardinality(Fetched)]

\* two runs in a row for the same provider with the same two ids, listed in
\* different orders
C4_Witness ==
    /\ Synced
    /\ lastSync.done
    /\ lastSync.provider_id = last.provider_id
    /\ lastSync.new_model_ids = <<y, z>>
    /\ last.new_model_ids = <<z, y>>
    /\ last.ret.preserved = 2
    /\ file = last.pre

\* C5: every id update_provider_models newly inserts is stored with the
\* record {"name": <the id>} and nothing else.
C5_NewModelsGetDefaultRecord ==
    Synced =>
        \A m \in Fetched \ Existing :
            /\ Has(ModelsOf(file, last.provider_id), m)
            /\ LET r == GetItem(ModelsOf(file, last.provider_id), m) IN
               /\ r.t = "dict"
               /\ Len(r.o) = 1
               /\ r.o[1].k = <<"name">>
               /\ r.o[1].v = [t |-> "str", s |-> m, o |-> <<>>]

\* model z newly inserted with the record {"name": "z"}
C5_Witness ==
    /\ Synced
    /\ z \in Fetched \ Existing
    /\ GetItem(ModelsOf(file, last.provider_id), z).o
           = <<[k |-> <<"name">>, v |-> [t |-> "str", s |-> z, o |-> <<>>]]>>

\* C6: update_provider_models for a provider id absent from the document
\* raises ValueError (ProviderNotFound), saves nothing and leaves the file
\* as it was.
C6_AbsentProviderRejected ==
    (/\ last.op = "update_provider_models"
     /\ last.pre.exists
     /\ ~Has(ProvidersOf(last.pre), last.provider_id))
    => /\ last.exc = "ValueError"
       /\ last.saves = 0
       /\ file = last.pre

\* an update for provider a on a document that holds provider b only
C6_Witness ==
    /\ last.op = "update_provider_models"
    /\ last.provider_id = a
    /\ last.new_model_ids # <<>>
    /\ last.pre.exists
    /\ Has(ProvidersOf(last.pre), b)
    /\ ~Has(ProvidersOf(last.pre), a)
    /\ last.exc = "ValueError"
    /\ file = last.pre

\* C7: change_model given a value without "/", or "<p>/<m>" (p and m the
\* parts it takes: split at the first "/", blanks stripped) where p is no
\* stored provider or m is no model of p, exits with status 1, makes no
\* save and leaves the selection and the whole file as they were.
C7_InvalidChangeRejected ==
    (/\ last.op = "change_model"
     /\ last.pre.exists
     /\ \/ ~HasSlash(last.model_value)
        \/ ~PairStored(last.pre, ProviderPart(last.model_value),
                       ModelPart(last.model_value)))
    => /\ last.exit = 1
       /\ last.saves = 0
       /\ SelectionOf(file) = SelectionOf(last.pre)
       /\ file = last.pre

\* a change to a/z refused: provider a is stored, model z is not among its
\* models, and the selection a/x stays
C7_Witness ==
    /\ last.op = "change_model"
    /\ last.model_value = <<"a", "/", "z">>
    /\ Has(ProvidersOf(last.pre), a)
    /\ ~Has(ModelsOf(last.pre, a), z)
    /\ last.exit = 1
    /\ SelectionOf(file) = <<"a", "/", "x">>

\* a change to c/x refused: provider c is not stored
C7_WitnessProvider ==
    /\ last.op = "change_model"
    /\ last.model_value = <<"c", "/", "x">>
    /\ ProvidersOf(last.pre) # EmptyDict
    /\ last.exit = 1
    /\ file = last.pre

\* C8: update_model(v) on an existing file sets the selection to v whatever
\* v is, valid pair or not, and leaves the provider section as it was.
C8_UpdateModelUnvalidated ==
    (last.op = "update_model" /\ last.pre.exists)
    => /\ last.exc = ""
       /\ SelectionOf(file) = last.model_value
       /\ Has(ConfigOf(file), S("provider"))
              = Has(ConfigOf(last.pre), S("provider"))
       /\ ProvidersOf(file) = ProvidersOf(last.pre)

\* the selection set to a value without a slash while providers are stored
C8_Witness ==
    /\ last.op = "update_model"
    /\ last.model_value = <<"nonsense">>
    /\ ProvidersOf(last.pre) # EmptyDict
    /\ SelectionOf(last.pre) # <<"nonsense">>
    /\ SelectionOf(file) = <<"nonsense">>

\* C9: change_model given "<p>/<m>" (split at the first "/", each part
\* stripped) with provider p stored and m among its models sets the
\* selection to exactly p/m, and validate_provider_model then holds for
\* the parts of the stored selection.
C9_ValidChangeSelects ==
    (/\ last.op = "change_model"
     /\ last.pre.exists
     /\ HasSlash(last.model_value)
     /\ PairStored(last.pre, ProviderPart(last.model_value),
                   ModelPart(last.model_value)))
    => /\ last.exit = 0
       /\ last.saves = 1
       /\ SelectionOf(file) = ProviderPart(last.model_value) \o <<"/">>
                                  \o ModelPart(last.model_value)
       /\ ProvidersOf(file) = ProvidersOf(last.pre)
       /\ validate_provider_model(file, ProviderPart(SelectionOf(file)),
                                  ModelPart(SelectionOf(file))).v
       /\ PairStored(file, ProviderPart(SelectionOf(file)),
                     ModelPart(SelectionOf(file)))

\* " a / x " given and a/x selected
C9_Witness ==
    /\ last.op = "change_model"
    /\ last.model_value = <<" ", "a", " ", "/", " ", "x", " ">>
    /\ last.exit = 0
    /\ SelectionOf(last.pre) # <<"a", "/", "x">>
    /\ SelectionOf(file) = <<"a", "/", "x">>

\* b/x/y given: provider b, model x/y
C9_WitnessSlash ==
    /\ last.op = "change_model"
    /\ last.model_value = <<"b", "/", "x", "/", "y">>
    /\ last.exit = 0
    /\ Has(ModelsOf(file, b), <<"x", "/", "y">>)
    /\ SelectionOf(file) = <<"b", "/", "x", "/", "y">>

\* C10: delete_model(m), when some provider has m, removes m from every
\* provider in the one call: afterwards no provider has m and
\* find_providers_for_model(m) is empty, and every other model entry of
\* every provider is as before.
C10_DeleteModelEverywhere ==
    (/\ last.op = "delete_model"
     /\ last.pre.exists
     /\ \E p \in ToSet(Keys(ProvidersOf(last.pre))) :
            Has(ModelsOf(last.pre, p), last.model_id))
    => /\ last.exc = ""
       /\ find_providers_for_model(file, last.model_id).v = <<>>
       /\ Keys(ProvidersOf(file)) = Keys(ProvidersOf(last.pre))
       /\ \A p \in ToSet(Keys(ProvidersOf(last.pre))) :
              /\ ~Has(ModelsOf(file, p), last.model_id)
              /\ ModelIdsOf(file, p)
                     = ModelIdsOf(last.pre, p) \ {last.model_id}
              /\ \A m \in ModelIdsOf(last.pre, p) \ {last.model_id} :
                     GetItem(ModelsOf(file, p), m)
                         = GetItem(ModelsOf(last.pre, p), m)

\* model y deleted from both providers that had it, x and z staying
C10_Witness ==
    /\ last.op = "delete_model"
    /\ last.model_id = y
    /\ Has(ModelsOf(last.pre, a), y)
    /\ Has(ModelsOf(last.pre, b), y)
    /\ ~Has(ModelsOf(file, a), y)
    /\ ~Has(ModelsOf(file, b), y)
    /\ Has(ModelsOf(file, a), x)
    /\ Has(ModelsOf(file, b), z)

\* every provider id stored in the file
ProviderIdsOf(f) == ToSet(Keys(ProvidersOf(f)))

\* the provider section of f2 is that of f1 but for the entry p
SameProvidersBut(f1, f2, p) ==
    /\ SelectSeq(Keys(ProvidersOf(f2)), LAMBDA q : q # p)
           = SelectSeq(Keys(ProvidersOf(f1)), LAMBDA q : q # p)
    /\ \A q \in ProviderIdsOf(f1) \ {p} :
           GetItem(ProvidersOf(f2), q) = GetItem(ProvidersOf(f1), q)

\* C11: delete_model(m) for an id no provider has raises ValueError
\* (ModelNotFound) and changes nothing: no save, the file as it was.
C11_DeleteAbsentModelRejected ==
    (/\ last.op = "delete_model"
     /\ last.pre.exists
     /\ \A p \in ProviderIdsOf(last.pre) :
            ~Has(ModelsOf(last.pre, p), last.model_id))
    => /\ last.exc = "ValueError"
       /\ last.saves = 0
       /\ file = last.pre

\* delete_model(z) refused on a document whose providers hold other models
C11_Witness ==
    /\ last.op = "delete_model"
    /\ last.model_id = z
    /\ \E p \in ProviderIdsOf(last.pre) : ModelIdsOf(last.pre, p) # {}
    /\ last.exc = "ValueError"
    /\ file = last.pre

\* C12: delete_provider(p) removes exactly the entry p, with its models,
\* and leaves every other provider as it was when p is stored; when p is
\* not stored it raises ValueError (ProviderNotFound) and the file is as
\* it was.
C12_DeleteProvider ==
    (last.op = "delete_provider" /\ last.pre.exists)
    => IF Has(ProvidersOf(last.pre), last.provider_id)
       THEN /\ last.exc = ""
            /\ ~Has(ProvidersOf(file), last.provider_id)
            /\ ProviderIdsOf(file)
                   = ProviderIdsOf(last.pre) \ {last.provider_id}
            /\ SameProvidersBut(last.pre, file, last.provider_id)
       ELSE /\ last.exc = "ValueError"
            /\ last.saves = 0
            /\ file = last.pre

\* provider a deleted with its models, provider b staying with its own
C12_Witness ==
    /\ last.op = "delete_provider"
    /\ last.provider_id = a
    /\ ModelIdsOf(last.pre, a) # {}
    /\ ~Has(ProvidersOf(file), a)
    /\ Has(ProvidersOf(file), b)
    /\ ModelIdsOf(file, b) = {y, z}

\* delete_provider(a) refused where only b is stored
C12_WitnessAbsent ==
    /\ last.op = "delete_provider"
    /\ last.provider_id = a
    /\ Has(ProvidersOf(last.pre), b)
    /\ last.exc = "ValueError"
    /\ file = last.pre

\* the calls that do not write the selection
NonSelecting ==
    {"delete_provider", "delete_model", "add_provider",
     "add_model_to_provider", "update_provider_models"}

\* C13: delete_provider, delete_model, add_provider, add_model_to_provider
\* and update_provider_models never change the selection field, not even
\* when they delete the selected provider or model; the stale selection
\* shows only in validate_provider_model being false for it afterwards.
C13_NoSelectionRepair ==
    (last.op \in NonSelecting /\ last.pre.exists)
    => LET sel == SelectionOf(file) IN
       /\ Has(ConfigOf(file), S("model")) = Has(ConfigOf(last.pre), S("model"))
       /\ sel = SelectionOf(last.pre)
       /\ (/\ HasSlash(sel)
           /\ last.exc = ""
           /\ \/ last.op = "delete_provider"
                     /\ last.provider_id = ProviderPart(sel)
              \/ last.op = "delete_model" /\ last.model_id = ModelPart(sel))
          => ~validate_provider_model(file, ProviderPart(sel),
                                      ModelPart(sel)).v

\* the selected provider a deleted, the selection a/x left in place and
\* no longer valid
C13_Witness ==
    /\ last.op = "delete_provider"
    /\ last.provider_id = a
    /\ last.exc = ""
    /\ PairStored(last.pre, a, x)
    /\ SelectionOf(last.pre) = <<"a", "/", "x">>
    /\ SelectionOf(file) = <<"a", "/", "x">>
    /\ ~validate_provider_model(file, a, x).v

\* the selected model x deleted, the selection a/x left in place
C13_WitnessModel ==
    /\ last.op = "delete_model"
    /\ last.model_id = x
    /\ last.exc = ""
    /\ PairStored(last.pre, a, x)
    /\ SelectionOf(file) = <<"a", "/", "x">>
    /\ ~validate_provider_model(file, a, x).v

\* C14: add_model_to_provider(p, m, r) on a stored provider p makes p's
\* entry m equal to r, inserted or overwritten, and leaves p's other models
\* and every other provider, a same-named m under it included, as they
\* were; when p is not stored it raises ValueError (ProviderNotFound) and
\* the file is as it was.
C14_AddModelToProvider ==
    (last.op = "add_model_to_provider" /\ last.pre.exists)
    => IF Has(ProvidersOf(last.pre), last.provider_id)
       THEN /\ last.exc = ""
            /\ Has(ModelsOf(file, last.provider_id), last.model_id)
            /\ GetItem(ModelsOf(file, last.provider_id), last.model_id)
                   = last.config
            /\ ModelIdsOf(file, last.provider_id)
                   = ModelIdsOf(last.pre, last.provider_id)
                         \cup {last.model_id}
            /\ \A m \in ModelIdsOf(last.pre, last.provider_id)
                            \ {last.model_id} :
                   GetItem(ModelsOf(file, last.provider_id), m)
                       = GetItem(ModelsOf(last.pre, last.provider_id), m)
            /\ Keys(ProvidersOf(file)) = Keys(ProvidersOf(last.pre))
            /\ SameProvidersBut(last.pre, file, last.provider_id)
       ELSE /\ last.exc = "ValueError"
            /\ last.saves = 0
            /\ file = last.pre

\* model z added to provider a while provider b keeps its own z
C14_Witness ==
    /\ last.op = "add_model_to_provider"
    /\ last.provider_id = a
    /\ last.model_id = z
    /\ last.exc = ""
    /\ ~Has(ModelsOf(last.pre, a), z)
    /\ Has(ModelsOf(file, a), z)
    /\ GetItem(ModelsOf(file, a), z) = ModelRecord(S("Custom"))
    /\ Has(ModelsOf(file, b), z)
    /\ GetItem(ModelsOf(file, b), z) = ModelRecord(z)

\* model x of provider a overwritten
C14_WitnessOverwrite ==
    /\ last.op = "add_model_to_provider"
    /\ last.provider_id = a
    /\ last.model_id = x
    /\ last.exc = ""
    /\ Has(ModelsOf(last.pre, a), x)
    /\ GetItem(ModelsOf(last.pre, a), x) = ModelRecord(S("Model-X"))
    /\ GetItem(ModelsOf(file, a), x) = ModelRecord(S("Custom"))
    /\ Has(ModelsOf(file, a), y)

\* add_model_to_provider refused for provider a where only b is stored
C14_WitnessAbsent ==
    /\ last.op = "add_model_to_provider"
    /\ last.provider_id = a
    /\ Has(ProvidersOf(last.pre), b)
    /\ last.exc = "ValueError"
    /\ file = last.pre

\* C15: add_provider(id, record) on an existing file never fails, also not
\* on a stored id: the entry at id becomes the record given, a stored entry
\* being replaced whole with its models, and every other provider and the
\* selection stay as they were.
C15_AddProviderOverwrites ==
    (last.op = "add_provider" /\ last.pre.exists)
    => /\ last.exc = ""
       /\ Has(ProvidersOf(file), last.provider_id)
       /\ GetItem(ProvidersOf(file), last.provider_id) = last.config
       /\ ProviderIdsOf(file)
              = ProviderIdsOf(last.pre) \cup {last.provider_id}
       /\ SameProvidersBut(last.pre, file, last.provider_id)
       /\ Has(ConfigOf(file), S("model")) = Has(ConfigOf(last.pre), S("model"))
       /\ SelectionOf(file) = SelectionOf(last.pre)

\* provider a, stored with models, replaced by a record without any
C15_Witness ==
    /\ last.op = "add_provider"
    /\ last.provider_id = a
    /\ ModelIdsOf(last.pre, a) # {}
    /\ Has(ProvidersOf(last.pre), b)
    /\ last.exc = ""
    /\ ModelIdsOf(file, a) = {}
    /\ GetItem(ProvidersOf(file), b) = GetItem(ProvidersOf(last.pre), b)

\* the provider and model ids asked about
AskedProviders == {a, b, c}

AskedModels == {x, y, z, xy}

\* C16: on every document validate_provider_model(p, m) is true exactly
\* when p is a key of the provider section and m a key of p's models (a
\* provider without a models section has none), which is exactly when p is
\* in find_providers_for_model(m).
C16_ValidateIffStored ==
    file.exists =>
        LET config == ConfigOf(file) IN
        \A m \in AskedModels :
            LET holders == find_providers_for_model(file, m).v IN
            \A p \in AskedProviders :
                LET valid == validate_provider_model(file, p, m) IN
                /\ valid.exc = ""
                /\ valid.v
                       = (/\ Has(config, S("provider"))
                          /\ Has(GetItem(config, S("provider")), p)
                          /\ Has(GetItem(GetItem(config, S("provider")), p),
                                 S("models"))
                          /\ Has(GetItem(GetItem(GetItem(config,
                                                         S("provider")), p),
                                         S("models")), m))
                /\ valid.v = InList(p, holders)

\* a document where provider b has model x, provider a has no models
\* section, and y is under no provider
C16_Witness ==
    /\ file.exists
    /\ steps > 0
    /\ Has(ProvidersOf(file), a)
    /\ ~Has(GetItem(ProvidersOf(file), a), S("models"))
    /\ validate_provider_model(file, b, x).v
    /\ ~validate_provider_model(file, a, x).v
    /\ ~validate_provider_model(file, b, y).v
    /\ find_providers_for_model(file, x).v = <<b>>

\* a document where model y is under two providers
C16_WitnessTwo ==
    /\ file.exists
    /\ validate_provider_model(file, a, y).v
    /\ validate_provider_model(file, b, y).v
    /\ ~validate_provider_model(file, b, x).v
    /\ find_providers_for_model(file, y).v = <<a, b>>

\* C17: on a well-formed document with no provider section and no
\* selection every query returns without raising: get_all_models and
\* get_providers an empty mapping, get_model the empty string,
\* validate_provider_model false for every pair.
C17_EmptyDocumentQueries ==
    (/\ file.exists
     /\ ~Has(ConfigOf(file), S("provider"))
     /\ ~Has(ConfigOf(file), S("model")))
    => /\ get_all_models(file) = [exc |-> "", v |-> [o |-> <<>>]]
       /\ get_providers(file) = [exc |-> "", v |-> EmptyDict]
       /\ get_model(file) = [exc |-> "", v |-> <<>>]
       /\ find_providers_for_model(file, x) = [exc |-> "", v |-> <<>>]
       /\ \A p \in AskedProviders, m \in AskedModels :
              validate_provider_model(file, p, m) = [exc |-> "", v |-> FALSE]

\* the document {} queried after a call that left it as it was
C17_Witness ==
    /\ file = FileOf(EmptyDict)
    /\ last.op = "delete_model"
    /\ last.exc = "ValueError"
    /\ get_all_models(file).v.o = <<>>
    /\ get_model(file).v = <<>>
    /\ ~validate_provider_model(file, a, x).v

----------------------------------------------------------------------------
(* The update command *)

\* the last call was `update' with no target on a file that exists
UpdateRan ==
    /\ last.op = "update"
    /\ last.target = NoTarget
    /\ last.pre.exists

\* the items of the provider section that have a base URL
WithBaseUrl(items) == SelectSeq(items, LAMBDA item : BaseUrlOf(item.v) # <<>>)

\* the table status that belongs to an answer
StatusOf(response) ==
    CASE response.kind = "none" -> "No baseURL"
      [] response.kind = "ok" -> "Success"
      [] response.kind = "http_error" -> "HTTP Error"
      [] response.kind = "malformed" -> "Error"

C18_WitnessSkip ==
    /\ UpdateRan
    /\ Len(last.rows) = 3
    /\ last.rows[1].status = "Error"
    /\ last.rows[2].status = "No baseURL"
    /\ last.rows[3].status = "Success"
    /\ last.rows[3].counts.removed > 0
    /\ [i \in 1..2 |-> last.fetches[i].provider_id] = <<a, b>>

\* the spellings of "all" among the targets
AllSpellings == {S("all"), S("ALL")}

\* the last call was `update' with a target on a file that exists
UpdateTargeted ==
    /\ last.op = "update"
    /\ last.target # NoTarget
    /\ last.pre.exists

\* the provider ids fetched by the last call, in the order of the fetches
FetchedIds == [i \in 1..Len(last.fetches) |-> last.fetches[i].provider_id]

\* C19: the update command given a stored provider id that has a baseURL
\* makes exactly one fetch, for that provider, and leaves the other
\* providers' records as they were; given "all" in any letter case it
\* makes one fetch for every provider that has a baseURL.
C19_TargetedUpdate ==
    UpdateTargeted =>
        LET providers == ProvidersOf(last.pre) IN
        IF last.target \in AllSpellings
        THEN FetchedIds = Keys(PyDict(WithBaseUrl(providers.o)))
        ELSE (/\ Has(providers, last.target)
              /\ BaseUrlOf(GetItem(providers, last.target)) # <<>>)
                 => /\ FetchedIds = <<last.target>>
                    /\ SameProvidersBut(last.pre, file, last.target)

\* C20: the update command given a provider id that is not in the document
\* ends with exit status 1, makes no fetch and leaves the file as it was.
C20_UnknownTargetExitsOne ==
    (/\ UpdateTargeted
     /\ last.target \notin AllSpellings
     /\ ~Has(ProvidersOf(last.pre), last.target))
        => /\ last.exit = 1
           /\ last.fetches = <<>>
           /\ file = last.pre

----------------------------------------------------------------------------
(* The add, delete and show commands *)

\* the last call was `add provider' and it stored the provider
ProviderAdded ==
    /\ last.op = "add provider"
    /\ last.exc = ""
    /\ Has(ProvidersOf(file), last.provider_id)

\* C21: the add-provider command, once the provider is stored, calls the
\* model update exactly once, for the provider id just added.
C21_AddProviderUpdatesNew ==
    ProviderAdded => last.updates = <<last.provider_id>>

\* the last call was a delete command
DeleteCommanded == last.op \in {"delete provider", "delete model"}

\* the answers that are "y" once case and surrounding spaces are ignored
YesAnswers == {<<"y">>, <<" ", "Y", " ">>}

\* C22: a delete command without auto-confirm that is answered with
\* anything but "y" (case-insensitive, surrounding whitespace ignored) is
\* cancelled after one prompt: the file is neither read nor written and
\* the command returns normally; answered with "y" it attempts the
\* deletion; with auto-confirm it shows no prompt and attempts the
\* deletion.
C22_DeleteNeedsConfirmation ==
    DeleteCommanded =>
        /\ (~last.auto_confirm /\ last.answer \notin YesAnswers)
               => /\ last.prompts = 1
                  /\ last.loads = 0
                  /\ last.saves = 0
                  /\ last.exit = 0
                  /\ file = last.pre
        /\ (~last.auto_confirm /\ last.answer \in YesAnswers)
               => (last.prompts = 1 /\ last.loads = 1)
        /\ last.auto_confirm => (last.prompts = 0 /\ last.loads = 1)
        /\ last.saves = 1 => file # last.pre

\* `delete provider a' answered n: provider a is stored and stays
C22_Witness ==
    /\ last.op = "delete provider"
    /\ ~last.auto_confirm
    /\ last.answer = <<"n">>
    /\ last.pre.exists
    /\ Has(ProvidersOf(last.pre), last.provider_id)
    /\ Has(ProvidersOf(file), last.provider_id)

\* `delete model y' answered " Y ": the model is deleted
C22_WitnessYes ==
    /\ last.op = "delete model"
    /\ last.answer = <<" ", "Y", " ">>
    /\ last.exit = 0
    /\ last.saves = 1
    /\ file # last.pre

\* `delete provider -y a': no prompt, the provider is deleted
C22_WitnessAuto ==
    /\ last.op = "delete provider"
    /\ last.auto_confirm
    /\ last.prompts = 0
    /\ last.pre.exists
    /\ Has(ProvidersOf(last.pre), last.provider_id)
    /\ ~Has(ProvidersOf(file), last.provider_id)

\* what the mutating methods do on file f, asked about provider p and
\* model m
MutationsOn(f, p, m) ==
    {update_model(f, Pair(p, m)),
     add_provider(f, p, ProviderRecord(Npm, p, S("http://new"), EmptyDict)),
     add_model_to_provider(f, p, m, ModelRecord(m)),
     delete_provider(f, p),
     delete_model(f, m),
     update_provider_models(f, p, <<m>>, <<>>)}

\* with file f missing the queries and the mutating methods raise
\* FileNotFoundError, and the mutating ones save nothing and leave it missing
StoreFailsOn(f) ==
    /\ get_model(f).exc = "FileNotFoundError"
    /\ get_providers(f).exc = "FileNotFoundError"
    /\ \A p \in AskedProviders, m \in AskedModels :
           \A e \in MutationsOn(f, p, m) :
               /\ e.exc = "FileNotFoundError"
               /\ e.saves = 0
               /\ e.file = f

\* the last call was a command of main, without a target if it was update,
\* and it found no file
CommandOnMissingFile ==
    /\ last.op \in {"show", "change_model", "add provider", "add model",
                    "delete provider", "delete model", "update"}
    /\ last.target = NoTarget
    /\ ~last.pre.exists

\* the last call was a delete command cancelled at the prompt
Cancelled ==
    /\ DeleteCommanded
    /\ ~last.auto_confirm
    /\ last.answer \notin YesAnswers

\* C23 as stated: with the backing file missing every store query and
\* mutation fails with FileNotFoundError before any save, the file is never
\* created, and the commands show, change, add, delete and update end with
\* exit status 1.
C23_MissingFileExitsOne ==
    /\ ~file.exists => StoreFailsOn(file)
    /\ CommandOnMissingFile
           => /\ last.exit = 1
              /\ last.saves = 0
              /\ ~file.exists

\* C23 amended: as above, the delete commands only once confirmed (by
\* auto-confirm or the answer y); a delete command cancelled at the prompt
\* never opens the file and returns normally.
C23_MissingFileFails ==
    /\ ~file.exists => StoreFailsOn(file)
    /\ CommandOnMissingFile
           => /\ last.saves = 0
              /\ ~file.exists
              /\ IF Cancelled
                 THEN last.exit = 0 /\ last.loads = 0
                 ELSE /\ last.exit = 1
                      /\ last.exc = "FileNotFoundError"
                      /\ last.loads = 1

\* `delete provider -y a' with no file: exit status 1
C23_Witness ==
    /\ CommandOnMissingFile
    /\ last.op = "delete provider"
    /\ last.auto_confirm
    /\ last.exit = 1
    /\ ~file.exists

\* `delete model' answered n with no file: returns normally
C23_WitnessCancelled ==
    /\ CommandOnMissingFile
    /\ Cancelled
    /\ last.exit = 0

\* `update' with no file: exit status 1 and no fetch
C23_WitnessUpdate ==
    /\ CommandOnMissingFile
    /\ last.op = "update"
    /\ last.exit = 1
    /\ last.fetches = <<>>

----------------------------------------------------------------------------
(* Failing saves *)

\* the last call reached save_config
SaveAttempted == last.saves = 1

\* C24: after a save attempt the file holds the entire new document or
\* the entire previous content, and when the save failed it holds the
\* previous content.
C24_NoPartialWrites ==
    SaveAttempted
        => /\ file \in {last.pre, last.whole}
           /\ last.fault # NoFault => file = last.pre

----------------------------------------------------------------------------
(* Saving and loading *)

\* load_config after save_config(d) returns d
RoundTrip(d) == load_config(save_config(NoFile, d)) = [exc |-> "", v |-> d]

\* get_all_models lists the providers and each provider's model ids in the
\* order document d stores them
ListedInStoredOrder(d) ==
    LET providers == Get(d, S("provider"), EmptyDict)
        listed == get_all_models(save_config(NoFile, d)).v.o
    IN /\ [i \in 1..Len(listed) |-> listed[i].k] = Keys(providers)
       /\ \A i \in 1..Len(listed) :
              listed[i].v = Keys(Get(providers.o[i].v, S("models"),
                                     EmptyDict))

\* C25: load_config after save_config(d) returns a document equal to d,
\* providers and models in d's order, for the documents given at the start
\* and for the document of every file reached; saving the document loaded
\* writes the same file; a provider or model added to the file comes last
\* when it is loaded again, and get_all_models lists ids in stored order.
C25_SaveLoadRoundTrip ==
    /\ \A d \in UpdateDocs : RoundTrip(d) /\ ListedInStoredOrder(d)
    /\ file.exists
           => LET d == ConfigOf(file) IN
              /\ RoundTrip(d)
              /\ save_config(file, d) = file
              /\ ListedInStoredOrder(d)
    /\ (/\ last.op = "add_provider"
        /\ last.exc = ""
        /\ ~Has(ProvidersOf(last.pre), last.provider_id))
           => Keys(ProvidersOf(file))
                  = Append(Keys(ProvidersOf(last.pre)), last.provider_id)
    /\ (/\ last.op = "add_model_to_provider"
        /\ last.exc = ""
        /\ ~Has(ModelsOf(last.pre, last.provider_id), last.model_id))
           => Keys(ModelsOf(file, last.provider_id))
                  = Append(Keys(ModelsOf(last.pre, last.provider_id)),
                           last.model_id)

\* a provider was added after the ones stored and a file with two
\* providers of two models each was loaded again
C25_Witness ==
    /\ last.op = "add_provider"
    /\ last.exc = ""
    /\ ~Has(ProvidersOf(last.pre), last.provider_id)
    /\ Len(Keys(ProvidersOf(file))) >= 2
    /\ \E p \in ProviderIds : Len(Keys(ModelsOf(file, p))) >= 2

\* the last call was one of the mutating methods
Mutated ==
    last.op \in {"update_model", "add_provider", "add_model_to_provider",
                 "delete_provider", "delete_model",
                 "update_provider_models"}

\* C26: a mutating method that succeeds loads the file once and saves it
\* once, and the one save holds all its changes (for
\* update_provider_models the removals and the additions alike); one that
\* fails validation loads once, saves nothing and leaves the file as it
\* was.
C26_OneLoadOneSave ==
    Mutated =>
        /\ last.exc = ""
               => /\ last.loads = 1
                  /\ last.saves = 1
                  /\ last.pre.exists
                  /\ file = save_config(last.pre, ConfigOf(file))
                  /\ Synced => ModelIdsOf(file, last.provider_id) = Fetched
        /\ last.exc = "ValueError"
               => /\ last.loads = 1
                  /\ last.saves = 0
                  /\ file = last.pre

\* update_provider_models added and removed models with one save
C26_Witness ==
    /\ Synced
    /\ last.ret.added > 0
    /\ last.ret.removed > 0
    /\ last.loads = 1
    /\ last.saves = 1

\* a delete_model that raised ValueError after its load
C26_WitnessRejected ==
    /\ last.op = "delete_model"
    /\ last.exc = "ValueError"
    /\ last.loads = 1
    /\ last.saves = 0

----------------------------------------------------------------------------
(* Two invocations side by side *)

\* both invocations have returned without an exception
BothCompleted ==
    /\ race.procs # <<>>
    /\ \A i \in Procs : race.procs[i].pc = "done" /\ race.procs[i].exc = ""

\* the position of a step among the steps taken
EventIndex(i, step) ==
    CHOOSE n \in 1..Len(race.events) : race.events[n] = Event(i, step)

\* the process that saved last, and the one that saved first
LastSaver == race.events[Len(race.events)].proc

FirstSaver == 3 - LastSaver

\* the process that saved last had loaded before the other one saved
Interleaved ==
    EventIndex(LastSaver, "load") < EventIndex(FirstSaver, "save")

\* the first saver's provider is one the file did not have and the last
\* saver did not add
FirstAddedNew ==
    /\ race.procs[FirstSaver].provider_id
           # race.procs[LastSaver].provider_id
    /\ ~Has(ProvidersOf(race.start), race.procs[FirstSaver].provider_id)

\* C27: with no lock between load and save, when two add_provider
\* invocations have both completed the file is what the last saver made
\* of the document it had loaded; if it had loaded before the first saver
\* saved, a provider only the first saver added is missing although both
\* returned normally, and if it loaded afterwards that provider is there.
C27_LastSaverWins ==
    BothCompleted =>
        /\ file = FileOf(add_provider_in(
                             race.procs[LastSaver].loaded,
                             race.procs[LastSaver].provider_id,
                             race.procs[LastSaver].provider_config))
        /\ (Interleaved /\ FirstAddedNew)
               => ~Has(ProvidersOf(file),
                       race.procs[FirstSaver].provider_id)
        /\ ~Interleaved
               => /\ Has(ProvidersOf(file),
                         race.procs[FirstSaver].provider_id)
                  /\ Has(ProvidersOf(file),
                         race.procs[LastSaver].provider_id)

\* both invocations returned normally and the provider the first saver
\* added is not in the file
C27_Witness ==
    /\ BothCompleted
    /\ Interleaved
    /\ FirstAddedNew
    /\ Has(ProvidersOf(file), race.procs[LastSaver].provider_id)
    /\ ~Has(ProvidersOf(file), race.procs[FirstSaver].provider_id)

----------------------------------------------------------------------------
(* The update run, provider by provider *)

\* the positions of the providers whose fetch succeeded in the last run
Answered ==
    {i \in 1..Len(last.responses) : last.responses[i].kind = "ok"}

\* C28: in an update run a provider whose fetch fails, or that has no
\* baseURL or an empty one, keeps its stored record; nothing is loaded or
\* saved for it, so the run saves once per provider answered; and a
\* provider without a baseURL is not fetched.
C28_FailedProvidersKept ==
    UpdateRan =>
        LET items == ProvidersOf(last.pre).o IN
        /\ \A i \in (1..Len(items)) \ Answered :
               /\ Has(ProvidersOf(file), items[i].k)
               /\ GetItem(ProvidersOf(file), items[i].k) = items[i].v
               /\ last.responses[i].kind = "none"
                      => \A n \in 1..Len(last.fetches) :
                             last.fetches[n].provider_id # items[i].k
        /\ last.saves = Cardinality(Answered)
        /\ last.loads = 1 + Cardinality(Answered)
        /\ Answered = {} => file = last.pre

\* a run over three providers: the first fails and keeps its models, the
\* second has an empty baseURL and is not fetched, the third is updated
C28_Witness ==
    /\ UpdateRan
    /\ Len(last.responses) = 3
    /\ last.responses[1].kind \in {"http_error", "malformed"}
    /\ last.responses[2].kind = "none"
    /\ Answered = {3}
    /\ Len(last.fetches) = 2
    /\ last.saves = 1
    /\ ModelIdsOf(file, a) = ModelIdsOf(last.pre, a)
    /\ ModelIdsOf(file, a) # {}
    /\ file # last.pre

\* every fetch of the last run succeeded
AllAnswered ==
    \A i \in 1..Len(last.responses) :
        last.responses[i].kind \in {"ok", "none"}

\* the ids the i-th provider's endpoint listed
ListedIds(i) == ToSet(last.responses[i].ids) \ {<<>>}

\* C29: after an update run in which every fetch succeeded, every provider
\* with a baseURL stores exactly the ids its own endpoint listed: the
\* merge of a later provider does not undo the merge of an earlier one.
C29_EveryProviderSynced ==
    (UpdateRan /\ AllAnswered) =>
        LET items == ProvidersOf(last.pre).o IN
        /\ Keys(ProvidersOf(file)) = Keys(ProvidersOf(last.pre))
        /\ \A i \in Answered :
               ModelIdsOf(file, items[i].k) = ListedIds(i)

\* two providers answered with different lists and both were changed
C29_Witness ==
    /\ UpdateRan
    /\ AllAnswered
    /\ Cardinality(Answered) = 2
    /\ \E i, j \in Answered :
           /\ i < j
           /\ ListedIds(i) # ListedIds(j)
           /\ LET items == ProvidersOf(last.pre).o IN
              /\ ModelIdsOf(last.pre, items[i].k) # ListedIds(i)
              /\ ModelIdsOf(last.pre, items[j].k) # ListedIds(j)
              /\ ModelIdsOf(file, items[i].k) = ListedIds(i)

----------------------------------------------------------------------------
(* What update_provider_models leaves alone *)

\* dict d without key k, d itself when it has no such key
Without(d, k) == IF Has(d, k) THEN DelItem(d, k) ELSE d

\* C30: update_provider_models(p, F) changes nothing but the models
\* mapping of provider p: the other providers' records and the order of
\* the providers, p's fields other than models, and the document's fields
\* other than the provider section are the same before and after.
C30_OnlyModelsChange ==
    Synced =>
        LET p == last.provider_id
            before == ConfigOf(last.pre)
            after == ConfigOf(file)
        IN /\ Keys(after) = Keys(before)
           /\ Without(after, S("provider")) = Without(before, S("provider"))
           /\ Keys(ProvidersOf(file)) = Keys(ProvidersOf(last.pre))
           /\ SameProvidersBut(last.pre, file, p)
           /\ Without(GetItem(ProvidersOf(file), p), S("models"))
                  = Without(GetItem(ProvidersOf(last.pre), p), S("models"))

\* a call that changed p's models in a document with another provider, a
\* selection, and a package reference, display name and options under p
C30_Witness ==
    /\ Synced
    /\ file # last.pre
    /\ Len(Keys(ProvidersOf(file))) = 2
    /\ Has(ConfigOf(file), S("model"))
    /\ Has(GetItem(ProvidersOf(file), last.provider_id), S("options"))
    /\ Has(GetItem(ProvidersOf(file), last.provider_id), S("npm"))
    /\ ModelIdsOf(file, last.provider_id)
           # ModelIdsOf(last.pre, last.provider_id)

====
